---- MODULE Spec2Model ----
(***************************************************************************)
(* Concurrent generation-orchestration layer of the AI recipe generator:   *)
(* GeminiService (semaphore, generate_recipes, _call_gemini_async,         *)
(* generate_multiple_recipes), the two FastAPI endpoints that construct a  *)
(* GeminiService per HTTP request, the CircuitBreaker and _parse_response. *)
(*                                                                         *)
(* Time is counted in ticks of one call timeout (30 s in the source).      *)
(* Every action is one synchronous segment of a coroutine: it runs from    *)
(* one suspension point (await) to the next, as the asyncio event loop     *)
(* runs it.                                                                *)
(***************************************************************************)
EXTENDS Integers, Sequences, FiniteSets, TLC

\* ---- bounds of the model ------------------------------------------------
NTasks == 3                 \* request slots that can be in flight at once
PoolSize == 2               \* pool of the semaphore: asyncio.Semaphore(3) in the
                            \* source, run here with a pool below NTasks
MaxProviderRecipes == 4     \* a provider answer holds none or this many valid recipes
FallbackCount == 2          \* records returned by the static sample recipes
AdmissionTicks == 1         \* admission_timeout_ms of the specification, in ticks
MaxRecords == 4             \* recipe records in one provider answer

\* ---- program constants (one tick of time is 30 seconds) ------------------
CallTimeoutTicks == 1       \* timeout=30
RecoveryTicks == 1          \* recovery_timeout=30
failure_threshold == 3      \* CircuitBreaker(failure_threshold=3)
max_batch == 5              \* len(requests) > 5 is rejected
MaxRecipes == 3             \* recipes[:3]
max_ingredients == 30       \* Ingredients: 1-30 items
MAX_RETRIES == 3            \* const MAX_RETRIES = 3

Tasks == 1..NTasks

\* cap of the latency counter: one tick beyond the two timeouts
MaxElapsed == AdmissionTicks + CallTimeoutTicks + 1

\* the longest list of requests sent to the batch endpoint
MaxBatchRequest == max_batch + 1

Min(a, b) == IF a < b THEN a ELSE b

VARIABLES
    pc,         \* task -> "idle" | "waiting" | "calling" | "sync" | "done"
                \*         | "refused" | "cancelled"
    semaphore,  \* GeminiService instance -> free slots (Semaphore._value)
    age,        \* task -> ticks its HTTP request has been pending
    elapsed,    \* task -> ticks since generate was issued
    result,     \* task -> what generate returned or raised
    breaker,    \* the CircuitBreaker: state, failure_count, openAge
    batch,      \* tasks of the running generate_multiple_recipes
    gathered,   \* asyncio.gather of the batch has returned
    pool,       \* the value every Semaphore is constructed with
    response_text,  \* the text handed to _parse_response
    parsed,     \* what _parse_response returned for it
    request,    \* the request handed to the sample-recipe selection
    selected,   \* the sample recipes selected for it
    retry       \* the front end's retryRequest: retries left, the outcome of
                \* every invocation of requestFn, and the promise

vars == <<pc, semaphore, age, elapsed, result, breaker, batch, gathered,
          pool, response_text, parsed, request, selected, retry>>

\* what the request machinery never touches
fixed == <<pool, response_text, parsed, request, selected, retry>>

\* ---- results ------------------------------------------------------------
NoResult == [kind |-> "none", source |-> "none", n |-> 0, error |-> "none", got |-> "none"]

Returned(src, n, err, got) ==
    [kind |-> "returned", source |-> src, n |-> n, error |-> err, got |-> got]

Raised(err, got) ==
    [kind |-> "raised", source |-> "none", n |-> 0, error |-> err, got |-> got]

\* ---- provider answers -----------------------------------------------------
\* "ok": status 200 with JSON holding n valid recipes; "garbage": status 200
\* with text json.loads rejects; "http": a status other than 200; "net": the
\* connection fails.
HttpOutcomes ==
    [kind : {"ok"}, n : {0, MaxProviderRecipes}]
      \cup {[kind |-> "garbage", n |-> 0], [kind |-> "http", n |-> 0], [kind |-> "net", n |-> 0]}

\* the synchronous fallback call can also raise a timeout of its own
SyncOutcomes == HttpOutcomes \cup {[kind |-> "timeout", n |-> 0]}

\* ---- _parse_response ------------------------------------------------------
\* recipes[:3] on a parsed answer; the sample recipes when parsing raises
ParseResponse(o) ==
    IF o.kind = "ok"
    THEN [exc |-> "none", source |-> "Provider", n |-> Min(o.n, MaxRecipes)]
    ELSE [exc |-> "none", source |-> "Fallback", n |-> FallbackCount]

\* ---- _parse_response on the text itself ----------------------------------
\* a record of data['recipes']: id is its position in the answer; title and
\* instructions tell whether the field is present
RecipeData == [id : 1..MaxRecords, title : BOOLEAN, instructions : BOOLEAN]

RecipeLists ==
    UNION {{[i \in 1..k |-> [id |-> i, title |-> f[i][1], instructions |-> f[i][2]]] :
               f \in [1..k -> BOOLEAN \X BOOLEAN]} : k \in 0..MaxRecords}

\* "json": text json.loads accepts, holding a list under 'recipes';
\* "garbage": text json.loads rejects, or JSON of another shape
NoText == [kind |-> "none", recipes |-> <<>>]

Texts == {[kind |-> "json", recipes |-> rs] : rs \in RecipeLists}
           \cup {[kind |-> "garbage", recipes |-> <<>>]}

NotParsed == [exc |-> "none", source |-> "none", recs |-> <<>>]

\* _validate_recipe: title and instructions are mandatory
ValidateRecipe(r) == r.title /\ r.instructions

\* _get_fallback_recipes: the sample recipes (id 0: not a record of the answer)
FallbackRecipes == [i \in 1..FallbackCount |-> [id |-> 0, title |-> TRUE, instructions |-> TRUE]]

FirstN(q, k) == SubSeq(q, 1, Min(Len(q), k))

ParseResponseText(x) ==
    IF x.kind = "json"
    THEN [exc |-> "none", source |-> "Provider",
          recs |-> FirstN(SelectSeq(x.recipes, ValidateRecipe), MaxRecipes)]
    ELSE [exc |-> "none", source |-> "Fallback", recs |-> FallbackRecipes]

\* ---- RecipeGenerateRequest and its validation ------------------------------
\* ingredients: the number of items (-1: the field is missing); cuisine_type
\* and dietary_preferences: "none" when absent or empty
Cuisines == {"italian", "chinese", "mexican"}
DietaryPreferences == {"vegetarian", "vegan", "gluten-free"}

\* a valid request and the requests that differ from it in one field
SampleRequest == [ingredients |-> 1, cuisine_type |-> "italian", dietary_preferences |-> "none"]

Requests ==
    {[SampleRequest EXCEPT !.ingredients = k] : k \in {-1, 0, 1, max_ingredients + 1}}
      \cup {[SampleRequest EXCEPT !.cuisine_type = "klingon"],
            [SampleRequest EXCEPT !.dietary_preferences = "carnivore"]}

ValidRequest(r) ==
    /\ r.ingredients \in 1..max_ingredients
    /\ r.cuisine_type \in Cuisines \cup {"none"}
    /\ r.dietary_preferences \in DietaryPreferences \cup {"none"}

NoRequest == [ingredients |-> 0, cuisine_type |-> "none", dietary_preferences |-> "none"]

\* the requests that pass validation
GenerationRequests ==
    {r \in [ingredients : 1..max_ingredients,
            cuisine_type : Cuisines \cup {"none"},
            dietary_preferences : DietaryPreferences \cup {"none"}] : ValidRequest(r)}

\* ---- the sample recipes and their selection --------------------------------
\* the static catalog: FallbackCount recipes, each with its main ingredient
MainIngredient(i) ==
    CASE i = 1 -> "chicken"
      [] i = 2 -> "eggplant"
      [] OTHER -> "rice"

Catalog == [i \in 1..FallbackCount |-> [id |-> i, ingredient |-> MainIngredient(i)]]

\* the forbidden-ingredient table of each diet
Forbidden(diet) ==
    CASE diet = "vegetarian"  -> {"chicken"}
      [] diet = "vegan"       -> {"chicken", "egg"}
      [] diet = "gluten-free" -> {"wheat"}
      [] OTHER                -> {}

\* substring match of a forbidden name in an ingredient name
Contains(name, part) ==
    \/ name = part
    \/ name = "eggplant" /\ part = "egg"

Violates(rec, diet) == \E f \in Forbidden(diet) : Contains(rec.ingredient, f)

\* (variant: the filter is applied even when it leaves nothing)
SelectStrict(r) ==
    LET keep(rec) == ~Violates(rec, r.dietary_preferences)
    IN SelectSeq(Catalog, keep)

\* the recipes that do not violate the diet; all of them when none is left
Select(r) ==
    LET keep(rec) == ~Violates(rec, r.dietary_preferences)
        kept == SelectSeq(Catalog, keep)
    IN IF kept = <<>> THEN Catalog ELSE kept

\* ---- the front end: retryRequest (services/api.js) -------------------------
\* what one invocation of requestFn ends in: the response data, or an axios
\* error with its code and the status of its response (0: no response)
RequestOutcomes ==
    {[ok |-> TRUE, code |-> "none", status |-> 200]}
      \cup {[ok |-> FALSE, code |-> "ECONNABORTED", status |-> 0],
            [ok |-> FALSE, code |-> "ERR_NETWORK", status |-> 0]}
      \cup {[ok |-> FALSE, code |-> "ERR_BAD_RESPONSE", status |-> st] : st \in {500, 502, 503}}
      \cup {[ok |-> FALSE, code |-> "ERR_BAD_REQUEST", status |-> st] : st \in {400, 404, 422, 499}}

NoRetry == [phase |-> "idle", retries |-> 0, calls |-> <<>>, settled |-> "none"]

\* (variant: every error is retried while retries are left)
ShouldRetryAny(error, retries) == retries > 0

\* retries > 0 && (error.code === 'ECONNABORTED' || error.response?.status >= 500)
ShouldRetry(error, retries) ==
    retries > 0 /\ (error.code = "ECONNABORTED" \/ error.status >= 500)

\* ---- one HTTP attempt: what _call_gemini_async returns or raises ----------
CallOutcome(o) ==
    CASE o.kind \in {"ok", "garbage"} -> ParseResponse(o)
      [] o.kind = "http"    -> [exc |-> "ProviderError", source |-> "none", n |-> 0]
      [] o.kind = "net"     -> [exc |-> "NetworkError", source |-> "none", n |-> 0]
      [] o.kind = "timeout" -> [exc |-> "TimeoutError", source |-> "none", n |-> 0]

\* ---- generate_recipes: the handler around _call_gemini_async --------------
\* only asyncio.TimeoutError is caught and answered from the sample recipes;
\* any other exception leaves generate_recipes
GenerateResult(c, got) ==
    CASE c.exc = "none"         -> Returned(c.source, c.n, "none", got)
      [] c.exc = "TimeoutError" -> Returned("Fallback", FallbackCount, "none", got)
      [] OTHER                  -> Raised(c.exc, got)

\* ---- CircuitBreaker -------------------------------------------------------
ShouldAttemptReset(b) == b.openAge >= RecoveryTicks

\* (variant: the entry check lets every caller through)
BeforeCallIgnoresOpen(b) == [allowed |-> TRUE, breaker |-> b]

\* (variant: an open breaker goes half-open without waiting for the cool-down)
BeforeCallNoCooldown(b) ==
    IF b.state = "Open"
    THEN [allowed |-> TRUE, breaker |-> [b EXCEPT !.state = "HalfOpen"]]
    ELSE [allowed |-> TRUE, breaker |-> b]

\* the entry check of CircuitBreaker.call
BeforeCall(b) ==
    IF b.state = "Open"
    THEN IF ShouldAttemptReset(b)
         THEN [allowed |-> TRUE, breaker |-> [b EXCEPT !.state = "HalfOpen"]]
         ELSE [allowed |-> FALSE, breaker |-> b]
    ELSE [allowed |-> TRUE, breaker |-> b]

\* (variant: a success leaves the failure count as it is)
OnSuccessKeepsCount(b) ==
    [b EXCEPT !.state = IF b.state = "HalfOpen" THEN "Closed" ELSE b.state]

OnSuccess(b) ==
    [b EXCEPT !.failure_count = 0,
              !.state = IF b.state = "HalfOpen" THEN "Closed" ELSE b.state]

\* (variant: the failure is written over by a concurrent report and lost)
OnFailureLost(b) == b

OnFailure(b) ==
    LET cnt == Min(b.failure_count + 1, failure_threshold) IN
    CASE b.state = "HalfOpen" ->
             [state |-> "Open", failure_count |-> cnt, openAge |-> 0]
      [] b.state = "Closed" /\ cnt >= failure_threshold ->
             [state |-> "Open", failure_count |-> cnt, openAge |-> 0]
      [] OTHER -> [b EXCEPT !.failure_count = cnt]

\* the try/except of CircuitBreaker.call around the awaited function
Report(b, c) == IF c.exc = "none" THEN OnSuccess(b) ELSE OnFailure(b)

\* ---- the synchronous prefix of one generate -------------------------------
\* w is the part of the state a dispatch touches
World == [pc |-> pc, semaphore |-> semaphore, result |-> result, breaker |-> breaker]

SemAcquireNow(w, t, s) ==
    IF w.semaphore[s] > 0
    THEN [w EXCEPT !.semaphore[s] = @ - 1, !.pc[t] = "calling"]
    ELSE [w EXCEPT !.pc[t] = "waiting"]

\* (variant: the slot is taken before the breaker is asked, and kept by a
\* rejected request)
DispatchSlotFirst(w, t, s) ==
    LET bc == BeforeCall(w.breaker) IN
    IF ~bc.allowed
    THEN [w EXCEPT !.pc[t] = "done",
                   !.semaphore[s] = @ - 1,
                   !.result[t] = Returned("Fallback", FallbackCount, "CircuitOpenError", "none")]
    ELSE SemAcquireNow([w EXCEPT !.breaker = bc.breaker], t, s)

Dispatch(w, t, s) ==
    LET bc == BeforeCall(w.breaker) IN
    IF ~bc.allowed
    THEN [w EXCEPT !.pc[t] = "done",
                   !.result[t] = Returned("Fallback", FallbackCount, "CircuitOpenError", "none")]
    ELSE SemAcquireNow([w EXCEPT !.breaker = bc.breaker], t, s)

RECURSIVE DispatchAll(_, _, _)
DispatchAll(w, ts, s) ==
    IF ts = <<>> THEN w
    ELSE DispatchAll(Dispatch(w, Head(ts), s), Tail(ts), s)

Idle == {t \in Tasks : pc[t] = "idle"}

\* the k lowest idle slots, in increasing order
RECURSIVE Lowest(_, _)
Lowest(S, k) ==
    IF k = 0 \/ S = {} THEN <<>>
    ELSE LET m == CHOOSE x \in S : \A y \in S : x <= y
         IN <<m>> \o Lowest(S \ {m}, k - 1)

Range(f) == {f[i] : i \in DOMAIN f}

Install(w) ==
    /\ pc' = w.pc
    /\ semaphore' = w.semaphore
    /\ result' = w.result
    /\ breaker' = w.breaker

\* ---- Init ---------------------------------------------------------------
\* p: the value of Semaphore(...); x: the text waiting for _parse_response
InitWith(p, x) ==
    /\ pc = [t \in Tasks |-> "idle"]
    /\ semaphore = [s \in Tasks |-> p]
    /\ age = [t \in Tasks |-> 0]
    /\ elapsed = [t \in Tasks |-> 0]
    /\ result = [t \in Tasks |-> NoResult]
    /\ breaker = [state |-> "Closed", failure_count |-> 0, openAge |-> 0]
    /\ batch = {}
    /\ gathered = FALSE
    /\ pool = p
    /\ response_text = x
    /\ parsed = NotParsed
    /\ request = NoRequest
    /\ selected = <<>>
    /\ retry = NoRetry

Init == InitWith(PoolSize, NoText)

\* the GeminiService instance a task runs in: the batch endpoint constructs
\* one for the whole batch, the single endpoint one per request
Svc(t) == IF t \in batch THEN CHOOSE s \in batch : \A u \in batch : s <= u ELSE t

\* an endpoint that has its answer returns it in the same synchronous segment
Settled ==
    /\ ~gathered
    /\ \A t \in Tasks : pc[t] \in {"done", "refused"} => t \in batch
    /\ batch # {} => \E t \in batch : pc[t] \notin {"done", "cancelled"}

\* ---- POST /recipes/generate: a GeminiService of its own, one generate ----
\* (variant: the refusal is counted as a failure of the provider)
RefuseAsFailure(w, t, err) ==
    [w EXCEPT !.pc[t] = "refused", !.result[t] = Raised(err, "none"),
              !.breaker = OnFailure(w.breaker)]

\* (variant: the request is refused after it has taken a slot, and keeps it)
RefuseHoldingSlot(w, t, err) ==
    [w EXCEPT !.pc[t] = "refused", !.result[t] = Raised(err, "none"),
              !.semaphore[t] = @ - 1]

\* the endpoint answers 422 or 400 before its body has done anything
Refuse(w, t, err) ==
    [w EXCEPT !.pc[t] = "refused", !.result[t] = Raised(err, "none")]

GenerateOn(S, r) ==
    /\ Settled
    /\ Idle \cap S # {}
    /\ LET t == Lowest(Idle \cap S, 1)[1]
       IN IF ~ValidRequest(r)
          THEN Install(Refuse(World, t, "ValidationError"))
          ELSE Install(Dispatch([World EXCEPT !.semaphore[t] = pool], t, t))
    /\ UNCHANGED <<age, elapsed, batch, gathered, fixed>>

Generate(r) == GenerateOn(Tasks, r)

\* ---- POST /recipes/generate-batch: one GeminiService, gather of n --------
\* n: len(requests); valid: every request of the list passes validation
GenerateBatchOn(S, n, valid) ==
    /\ Settled
    /\ batch = {}
    /\ Idle \cap S # {}
    /\ IF ~valid \/ n > max_batch
       THEN /\ Install(Refuse(World, Lowest(Idle \cap S, 1)[1],
                              IF ~valid THEN "ValidationError" ELSE "BatchTooLargeError"))
            /\ UNCHANGED batch
       ELSE /\ Cardinality(Idle \cap S) >= n
            /\ LET ts == Lowest(Idle \cap S, n)
                   s == ts[1]
               IN /\ Install(DispatchAll([World EXCEPT !.semaphore[s] = pool], ts, s))
                  /\ batch' = Range(ts)
    /\ UNCHANGED <<age, elapsed, gathered, fixed>>

GenerateBatch(n, valid) == GenerateBatchOn(Tasks, n, valid)

InProgress(t) == pc[t] \in {"waiting", "calling", "sync"}

\* ---- a waiter of `async with self.semaphore` is granted a slot -----------
\* (variant: a release does not wake the waiters)
WakeUpLost(sem, s) == FALSE

\* a release has made a slot free: the waiter's future is set
WakeUp(sem, s) == sem[s] > 0

Acquire(t) ==
    /\ Settled
    /\ pc[t] = "waiting"
    /\ WakeUp(semaphore, Svc(t))
    /\ semaphore' = [semaphore EXCEPT ![Svc(t)] = @ - 1]
    /\ pc' = [pc EXCEPT ![t] = "calling"]
    /\ UNCHANGED <<age, elapsed, result, breaker, batch, gathered, fixed>>

\* ---- the call is over: report to the breaker, leave the semaphore ---------
\* (variant: the slot is not given back)
SemReleaseLeak(sem, s) == sem

SemRelease(sem, s) == [sem EXCEPT ![s] = @ + 1]

Finish(t, c, got) ==
    /\ breaker' = Report(breaker, c)
    /\ semaphore' = SemRelease(semaphore, Svc(t))
    /\ result' = [result EXCEPT ![t] = GenerateResult(c, got)]
    /\ pc' = [pc EXCEPT ![t] = "done"]
    /\ age' = [age EXCEPT ![t] = 0]
    /\ elapsed' = [elapsed EXCEPT ![t] = 0]
    /\ UNCHANGED <<batch, gathered, fixed>>

\* ---- the provider answers the HTTP request within the timeout -------------
ProviderResponds(t, o) ==
    /\ Settled
    /\ pc[t] = "calling"
    /\ Finish(t, CallOutcome(o), o.kind)

\* ---- asyncio.timeout fires: the synchronous fallback call is started ------
CallTimesOut(t) ==
    /\ Settled
    /\ pc[t] = "calling"
    /\ age[t] >= CallTimeoutTicks
    /\ pc' = [pc EXCEPT ![t] = "sync"]
    /\ age' = [age EXCEPT ![t] = 0]
    /\ UNCHANGED <<semaphore, elapsed, result, breaker, batch, gathered, fixed>>

\* ---- _call_gemini_sync_fallback returns or raises --------------------------
SyncFallbackReturns(t, o) ==
    /\ Settled
    /\ pc[t] = "sync"
    /\ Finish(t, CallOutcome(o), o.kind)

\* ---- generate_multiple_recipes: gather returned, exceptions replaced ------
\* (variant: gather without return_exceptions, the first exception fails the
\* whole batch and every request is answered from the sample recipes)
GatherResultsAllFail(rs, B) ==
    [t \in Tasks |->
        IF t \in B /\ (\E u \in B : rs[u].kind = "raised")
        THEN Returned("Fallback", FallbackCount, "none", rs[t].got)
        ELSE rs[t]]

\* (variant: the results are returned in the mirrored order of the requests)
GatherResultsMirrored(rs, B) ==
    LET lo == CHOOSE x \in B : \A y \in B : x <= y
        hi == CHOOSE x \in B : \A y \in B : x >= y
        from(t) == IF lo + hi - t \in B THEN lo + hi - t ELSE t
    IN [t \in Tasks |->
          IF t \notin B THEN rs[t]
          ELSE IF rs[from(t)].kind = "raised"
               THEN Returned("Fallback", FallbackCount, "none", rs[from(t)].got)
               ELSE rs[from(t)]]

GatherResults(rs, B) ==
    [t \in Tasks |->
        IF t \in B /\ rs[t].kind = "raised"
        THEN Returned("Fallback", FallbackCount, "none", rs[t].got)
        ELSE rs[t]]

Gather ==
    /\ batch # {}
    /\ ~gathered
    /\ \A t \in batch : pc[t] = "done"
    /\ result' = GatherResults(result, batch)
    /\ gathered' = TRUE
    /\ UNCHANGED <<pc, semaphore, age, elapsed, breaker, batch, fixed>>

\* ---- the batch is cancelled while asyncio.gather is pending -----------------
\* gather cancels every sub-request that has not completed: each one gets
\* CancelledError at the await it is suspended in (recorded in `got`); one
\* inside `async with self.semaphore` leaves it, one queued for the semaphore
\* leaves the queue. CancelledError is not an Exception: the breaker's
\* `except Exception` does not see it. The results of the sub-requests that
\* had completed are dropped with the gather (`got` is "done").
\* (variant: the slots of the cancelled holders are not given back)
CancelReleaseNone(sem, s, k) == sem

CancelRelease(sem, s, k) == [sem EXCEPT ![s] = @ + k]

CancelBatch ==
    /\ Settled
    /\ batch # {}
    /\ LET s == Svc(CHOOSE t \in batch : TRUE)
           out == {t \in batch : InProgress(t)}
           holders == {t \in out : pc[t] \in {"calling", "sync"}}
       IN /\ semaphore' = CancelRelease(semaphore, s, Cardinality(holders))
          /\ pc' = [t \in Tasks |-> IF t \in batch THEN "cancelled" ELSE pc[t]]
          /\ result' = [t \in Tasks |->
                           IF t \in batch THEN Raised("CancelledError", pc[t]) ELSE result[t]]
          /\ age' = [t \in Tasks |-> IF t \in out THEN 0 ELSE age[t]]
          /\ elapsed' = [t \in Tasks |-> IF t \in out THEN 0 ELSE elapsed[t]]
    /\ UNCHANGED <<breaker, batch, gathered, fixed>>

\* ---- the batch endpoint answers, or is left by the cancellation -------------
BatchRespond ==
    /\ gathered \/ \E t \in batch : pc[t] = "cancelled"
    /\ pc' = [t \in Tasks |-> IF t \in batch THEN "idle" ELSE pc[t]]
    /\ result' = [t \in Tasks |-> IF t \in batch THEN NoResult ELSE result[t]]
    /\ batch' = {}
    /\ gathered' = FALSE
    /\ UNCHANGED <<semaphore, age, elapsed, breaker, fixed>>

\* ---- the single endpoint answers (200 with the recipes, or 500) ----------
Respond(t) ==
    /\ pc[t] \in {"done", "refused"}
    /\ t \notin batch
    /\ pc' = [pc EXCEPT ![t] = "idle"]
    /\ result' = [result EXCEPT ![t] = NoResult]
    /\ UNCHANGED <<semaphore, age, elapsed, breaker, batch, gathered, fixed>>

\* ---- one tick of time ------------------------------------------------------

\* a call that has reached its timeout is cut off, and a waiter that has been
\* woken by a release takes its slot, before time moves on
TickClock ==
    /\ Settled
    /\ \A t \in Tasks : pc[t] = "calling" => age[t] < CallTimeoutTicks
    /\ \A t \in Tasks : pc[t] = "waiting" => semaphore[Svc(t)] = 0
    /\ age' = [t \in Tasks |-> IF pc[t] = "calling" THEN age[t] + 1 ELSE age[t]]
    /\ breaker' = IF breaker.state = "Open"
                  THEN [breaker EXCEPT !.openAge = Min(@ + 1, RecoveryTicks)]
                  ELSE breaker
    /\ UNCHANGED <<pc, semaphore, result, batch, gathered, fixed>>

Tick ==
    /\ TickClock
    /\ UNCHANGED elapsed

Next ==
    \/ \E r \in Requests : Generate(r)
    \/ \E n \in 1..MaxBatchRequest : GenerateBatch(n, TRUE)
    \/ \E n \in {1, MaxBatchRequest} : GenerateBatch(n, FALSE)
    \/ \E t \in Tasks : Acquire(t)
    \/ \E t \in Tasks, o \in HttpOutcomes : ProviderResponds(t, o)
    \/ \E t \in Tasks : CallTimesOut(t)
    \/ \E t \in Tasks, o \in SyncOutcomes : SyncFallbackReturns(t, o)
    \/ Gather
    \/ CancelBatch
    \/ BatchRespond
    \/ \E t \in Tasks : Respond(t)
    \/ Tick

Spec == Init /\ [][Next]_vars

\* ---- the same system with the latency of every generate observed ---------
TickLatency ==
    /\ TickClock
    /\ elapsed' = [t \in Tasks |->
                     IF InProgress(t) THEN Min(elapsed[t] + 1, MaxElapsed) ELSE elapsed[t]]

NextLatency ==
    \/ \E r \in Requests : Generate(r)
    \/ \E n \in 1..MaxBatchRequest : GenerateBatch(n, TRUE)
    \/ \E n \in {1, MaxBatchRequest} : GenerateBatch(n, FALSE)
    \/ \E t \in Tasks : Acquire(t)
    \/ \E t \in Tasks, o \in HttpOutcomes : ProviderResponds(t, o)
    \/ \E t \in Tasks : CallTimesOut(t)
    \/ \E t \in Tasks, o \in SyncOutcomes : SyncFallbackReturns(t, o)
    \/ Gather
    \/ CancelBatch
    \/ BatchRespond
    \/ \E t \in Tasks : Respond(t)
    \/ TickLatency

SpecLatency == Init /\ [][NextLatency]_vars

\* ---- the same system with Semaphore(1) -------------------------------------
InitPoolOne == InitWith(1, NoText)

SpecPoolOne == InitPoolOne /\ [][Next]_vars

\* ---- the same system under a fair event loop -------------------------------
\* time passes, a timeout that is due fires, the synchronous call ends, a woken
\* waiter runs, and an endpoint that has its answer returns it
Fairness ==
    /\ WF_vars(Tick)
    /\ WF_vars(Gather)
    /\ WF_vars(BatchRespond)
    /\ WF_vars(\E t \in Tasks : Acquire(t))
    /\ WF_vars(\E t \in Tasks : CallTimesOut(t))
    /\ WF_vars(\E t \in Tasks, o \in SyncOutcomes : SyncFallbackReturns(t, o))
    /\ WF_vars(\E t \in Tasks : Respond(t))

\* a request of the single endpoint has a semaphore of its own and never waits
\* for it: the waiters are those of the batch endpoint
NextBatch ==
    \/ \E n \in 1..MaxBatchRequest : GenerateBatch(n, TRUE)
    \/ \E n \in {1, MaxBatchRequest} : GenerateBatch(n, FALSE)
    \/ \E t \in Tasks : Acquire(t)
    \/ \E t \in Tasks, o \in HttpOutcomes : ProviderResponds(t, o)
    \/ \E t \in Tasks : CallTimesOut(t)
    \/ \E t \in Tasks, o \in SyncOutcomes : SyncFallbackReturns(t, o)
    \/ Gather
    \/ CancelBatch
    \/ BatchRespond
    \/ \E t \in Tasks : Respond(t)
    \/ Tick

SpecFair == Init /\ [][NextBatch]_vars /\ Fairness

\* ---- _parse_response alone, on every text of the bounded set ---------------
InitParse == \E x \in Texts : InitWith(PoolSize, x)

Parse ==
    /\ response_text # NoText
    /\ parsed = NotParsed
    /\ parsed' = ParseResponseText(response_text)
    /\ UNCHANGED <<pc, semaphore, age, elapsed, result, breaker, batch, gathered,
                   pool, response_text, request, selected, retry>>

NextParse == Parse

SpecParse == InitParse /\ [][NextParse]_vars

\* ---- the selection of the sample recipes alone, on every valid request -----
InitCatalog ==
    /\ \E r \in GenerationRequests : request = r
    /\ pc = [t \in Tasks |-> "idle"]
    /\ semaphore = [s \in Tasks |-> PoolSize]
    /\ age = [t \in Tasks |-> 0]
    /\ elapsed = [t \in Tasks |-> 0]
    /\ result = [t \in Tasks |-> NoResult]
    /\ breaker = [state |-> "Closed", failure_count |-> 0, openAge |-> 0]
    /\ batch = {}
    /\ gathered = FALSE
    /\ pool = PoolSize
    /\ response_text = NoText
    /\ parsed = NotParsed
    /\ selected = <<>>
    /\ retry = NoRetry

GetFallbackRecipes ==
    /\ request # NoRequest
    /\ selected = <<>>
    /\ selected' = Select(request)
    /\ UNCHANGED <<pc, semaphore, age, elapsed, result, breaker, batch, gathered,
                   pool, response_text, parsed, request, retry>>

NextCatalog == GetFallbackRecipes

SpecCatalog == InitCatalog /\ [][NextCatalog]_vars

\* ---- retryRequest alone: recipeAPI.generateRecipes is called once ----------
others == <<pc, semaphore, age, elapsed, result, breaker, batch, gathered,
            pool, response_text, parsed, request, selected>>

\* retryRequest(requestFn) with the default retries = MAX_RETRIES
GenerateRecipes ==
    /\ retry.phase = "idle"
    /\ retry.settled = "none"
    /\ retry' = [phase |-> "requesting", retries |-> MAX_RETRIES, calls |-> <<>>,
                 settled |-> "none"]
    /\ UNCHANGED others

\* requestFn() has ended with outcome o: return it, retry after the delay, or
\* throw the error
RequestEnds(o) ==
    /\ retry.phase = "requesting"
    /\ LET calls == Append(retry.calls, o) IN
       retry' = IF o.ok
                THEN [retry EXCEPT !.phase = "idle", !.calls = calls, !.settled = "returned"]
                ELSE IF ShouldRetry(o, retry.retries)
                     THEN [retry EXCEPT !.phase = "delay", !.calls = calls]
                     ELSE [retry EXCEPT !.phase = "idle", !.calls = calls, !.settled = "thrown"]
    /\ UNCHANGED others

\* RETRY_DELAY has passed: retryRequest(requestFn, retries - 1)
RetryAfterDelay ==
    /\ retry.phase = "delay"
    /\ retry' = [retry EXCEPT !.phase = "requesting", !.retries = @ - 1]
    /\ UNCHANGED others

NextRetry ==
    \/ GenerateRecipes
    \/ \E o \in RequestOutcomes : RequestEnds(o)
    \/ RetryAfterDelay

SpecRetry == Init /\ [][NextRetry]_vars

\* ==== the claims ==========================================================

Holding(t) == pc[t] \in {"calling", "sync"}

\* C1: at any moment, over all concurrent generate and generateMany calls
\* (separate requests included), at most PoolSize admission tokens are held.
C1_TokensWithinPool ==
    Cardinality({t \in Tasks : Holding(t)}) <= pool

\* C2: every generate returns a result with 1..3 recipes whose source is
\* Provider or Fallback, whatever the provider does.
C2_ResultShape ==
    \A t \in Tasks :
        pc[t] = "done" =>
            /\ result[t].kind = "returned"
            /\ result[t].n \in 1..MaxRecipes
            /\ result[t].source \in {"Provider", "Fallback"}

ErrorOf(got) ==
    CASE got = "http"    -> "ProviderError"
      [] got = "net"     -> "NetworkError"
      [] got = "timeout" -> "TimeoutError"
      [] got = "garbage" -> "ParseError"
      [] OTHER           -> "none"

\* C3: a failure other than a validation error never leaves generate: the
\* result is returned with source=Fallback and its error names the failure.
C3_FailureAbsorbed ==
    \A t \in Tasks :
        (pc[t] = "done" /\ ~gathered /\ result[t].got \in {"http", "net", "timeout", "garbage"}) =>
            /\ result[t].kind = "returned"
            /\ result[t].source = "Fallback"
            /\ result[t].error = ErrorOf(result[t].got)

\* ---- steps the claims speak about ----------------------------------------
CoolingDown == breaker.state = "Open" /\ breaker.openAge < RecoveryTicks

\* an outbound provider call is started for t (asynchronous or synchronous)
CallStarted(t) ==
    \/ pc[t] # "calling" /\ pc'[t] = "calling"
    \/ pc[t] = "calling" /\ pc'[t] = "sync"

Issued(t) == pc[t] = "idle" /\ pc'[t] \notin {"idle", "refused"}

Rejection == Returned("Fallback", FallbackCount, "CircuitOpenError", "none")

Reports(t, kinds) ==
    /\ Holding(t)
    /\ pc'[t] = "done"
    /\ result'[t].got \in kinds

SuccessStep == \E t \in Tasks : Reports(t, {"ok", "garbage"})
FailureStep == \E t \in Tasks : Reports(t, {"http", "net", "timeout"})

\* C5: the breaker state changes only Closed->Open when a failure reaches
\* the threshold, Open->HalfOpen once the cool-down has elapsed,
\* HalfOpen->Closed on a success and HalfOpen->Open on a failure.
C5_Transitions ==
    [][breaker'.state # breaker.state =>
         \/ /\ breaker.state = "Closed" /\ breaker'.state = "Open"
            /\ FailureStep
            /\ breaker'.failure_count >= failure_threshold
         \/ /\ breaker.state = "Open" /\ breaker'.state = "HalfOpen"
            /\ breaker.openAge >= RecoveryTicks
         \/ /\ breaker.state = "HalfOpen" /\ breaker'.state = "Closed"
            /\ SuccessStep
         \/ /\ breaker.state = "HalfOpen" /\ breaker'.state = "Open"
            /\ FailureStep]_vars

C5_Witness == breaker.state = "HalfOpen" /\ \E t \in Tasks : Holding(t)

\* C6: while the breaker is half-open exactly one trial is admitted: every
\* further generate is rejected until the trial has been reported.
C6_SingleTrial ==
    [][breaker.state = "HalfOpen" =>
         \A t \in Tasks : Issued(t) => pc'[t] = "done" /\ result'[t] = Rejection]_vars

\* C7: a slot taken by a generate is given back exactly once on every exit
\* path: the free slots of every semaphore are the pool minus the generates
\* that hold one, hence the whole pool when no generate is in progress.
C7_TokensReleased ==
    \A s \in Tasks :
        semaphore[s] = pool - Cardinality({t \in Tasks : Svc(t) = s /\ Holding(t)})

C7_Witness ==
    /\ \E t \in Tasks : pc[t] = "done" /\ result[t].kind = "raised"
    /\ \E t \in Tasks : pc[t] = "done" /\ result[t].got = "timeout"
    /\ \A t \in Tasks : ~InProgress(t)
    /\ \A s \in Tasks : semaphore[s] = pool

\* C8: a caller whose admission timeout has elapsed while it waits gets
\* AdmissionTimeoutError and never takes a slot (a generate waits from the
\* moment it is issued, so its wait is its latency so far).
C8_TimedOutNeverHolds ==
    [][\A t \in Tasks :
         (pc[t] = "waiting" /\ elapsed[t] >= AdmissionTicks) =>
             \/ pc'[t] = "waiting"
             \/ /\ pc'[t] = "done"
                /\ result'[t].error = "AdmissionTimeoutError"
                /\ semaphore' = semaphore]_vars

\* C9: no generate takes longer than the admission timeout plus the call
\* timeout, and a generate whose calls time out returns source=Fallback.
C9_BoundedLatency ==
    \A t \in Tasks :
        /\ elapsed[t] <= AdmissionTicks + CallTimeoutTicks
        /\ (pc[t] = "done" /\ result[t].got = "timeout") => result[t].source = "Fallback"

\* C10: in a batch a request whose own provider call succeeded keeps
\* source=Provider with its own recipes whatever its siblings did, and the
\* requests of the batch hold at most one slot each.
C10_Isolation ==
    /\ \A t \in batch :
          (pc[t] = "done" /\ result[t].got = "ok") =>
              result[t].kind = "returned" /\ result[t].source = "Provider"
    /\ batch # {} =>
          pool - semaphore[Svc(CHOOSE t \in batch : TRUE)]
              <= Cardinality({t \in batch : InProgress(t)})

C10_Witness ==
    /\ gathered
    /\ \E t \in batch : result[t].got = "ok" /\ result[t].source = "Provider" /\ result[t].n >= 1
    /\ \E t \in batch : result[t].got \in {"http", "net"} /\ result[t].source = "Fallback"
    /\ \E t \in batch : result[t].got = "timeout"

\* C11: the batch returns only when every sub-request has completed, with
\* one returned result per sub-request, and the result at position i is the
\* result of request i (its own, or the fallback that replaces its exception)
\* whatever the order of completion was.
C11_GatherInOrder ==
    [][(~gathered /\ gathered') =>
         /\ \A t \in batch : pc[t] = "done"
         /\ batch' = batch
         /\ \A t \in batch :
               /\ result'[t].kind = "returned"
               /\ result'[t].got = result[t].got
               /\ result[t].kind = "returned" => result'[t] = result[t]
               /\ result[t].kind = "raised" =>
                     result'[t].source = "Fallback" /\ result'[t].n = FallbackCount]_vars

C11_Witness ==
    /\ gathered
    /\ Cardinality(batch) = NTasks
    /\ \E t, u \in batch :
          /\ t < u
          /\ result[t].got = "timeout"
          /\ result[u].got = "ok" /\ result[u].source = "Provider"

\* C12: a batch of more than max_batch requests is refused with
\* BatchTooLargeError and starts nothing: no sub-request is dispatched, no slot
\* is taken, no call is started and the breaker is unchanged.
\* a request is taken on by an endpoint in this step
Arrives == \E t \in Tasks : pc[t] = "idle" /\ pc'[t] # "idle"

C12_TooLargeStartsNothing ==
    [][\A n \in (max_batch + 1)..MaxBatchRequest :
         (Arrives /\ GenerateBatch(n, TRUE)) =>
             \E t \in Tasks :
                 /\ pc[t] = "idle" /\ pc'[t] = "refused"
                 /\ result'[t] = Raised("BatchTooLargeError", "none")
                 /\ \A u \in Tasks \ {t} : pc'[u] = pc[u]
                 /\ semaphore' = semaphore
                 /\ breaker' = breaker
                 /\ batch' = batch]_vars

C12_Witness ==
    /\ \E t \in Tasks : pc[t] = "refused" /\ result[t].error = "BatchTooLargeError"
    /\ \E u \in Tasks : Holding(u)
    /\ breaker.failure_count > 0

C14_SingleAttempt ==
    [][\A t \in Tasks : CallStarted(t) => ~Holding(t)]_vars

\* C15: no report to the breaker is lost: a failure adds one to the failure
\* count (which saturates at the threshold), a success resets it, nothing else
\* changes it, and the failure that brings the count to the threshold leaves
\* the breaker open.
C15_NoLostUpdate ==
    [][/\ FailureStep =>
            /\ breaker'.failure_count = Min(breaker.failure_count + 1, failure_threshold)
            /\ breaker'.failure_count >= failure_threshold => breaker'.state = "Open"
       /\ SuccessStep => breaker'.failure_count = 0
       /\ (~FailureStep /\ ~SuccessStep) => breaker'.failure_count = breaker.failure_count]_vars

C15_Witness ==
    /\ breaker.state = "Open"
    /\ breaker.failure_count = failure_threshold
    /\ Cardinality({t \in batch : pc[t] = "done" /\ result[t].got \in {"http", "net", "timeout"}})
          >= failure_threshold

\* the provider's answer parsed but held no valid recipe
EmptyAnswer(r) == r.got = "ok" /\ ~(r.source = "Provider" /\ r.n >= 1)

\* C16: an answer that parses but holds no recipe is not a failure (the
\* failure count does not grow and the breaker does not open), and the
\* request is answered from the fallback catalog.
C16_EmptyNotFailure ==
    [][\A t \in Tasks :
         (Reports(t, {"ok"}) /\ EmptyAnswer(result'[t])) =>
             /\ breaker'.failure_count <= breaker.failure_count
             /\ breaker'.state = "Open" => breaker.state = "Open"
             /\ result'[t].source = "Fallback"
             /\ result'[t].n >= 1]_vars

\* C17: with a pool of one, two generates issued concurrently never have
\* their provider calls overlap.
C17_NoOverlap ==
    pool = 1 => \A t, u \in Tasks : (t # u /\ Holding(t)) => ~Holding(u)

\* C18: cancelling a batch cancels every outstanding sub-request and leaks no
\* slot: afterwards no sub-request of the batch is in progress, the batch's
\* semaphore has its whole pool, and the other requests and their slots are
\* untouched.
C18_CancelReleases ==
    [][(\E t \in batch : pc[t] # "cancelled" /\ pc'[t] = "cancelled") =>
         LET s == Svc(CHOOSE t \in batch : TRUE) IN
         /\ \A t \in batch : pc'[t] = "cancelled" /\ result'[t].kind = "raised"
         /\ semaphore'[s] = pool
         /\ \A u \in Tasks \ batch : pc'[u] = pc[u] /\ semaphore'[u] = semaphore[u]
         /\ breaker' = breaker]_vars

C18_Witness ==
    /\ \E t \in batch : pc[t] = "cancelled" /\ result[t].got = "waiting"
    /\ \E t \in batch : pc[t] = "cancelled" /\ result[t].got = "calling"
    /\ \A t \in batch : semaphore[Svc(t)] = pool

C20_ParserContract ==
    parsed # NotParsed =>
        LET recs == parsed.recs
            valid == {i \in DOMAIN response_text.recipes : ValidateRecipe(response_text.recipes[i])}
        IN /\ \A i \in DOMAIN recs : recs[i].title /\ recs[i].instructions
           /\ Len(recs) <= MaxRecipes
           /\ response_text.kind = "json" =>
                 /\ parsed.exc = "none"
                 /\ Len(recs) = Min(Cardinality(valid), MaxRecipes)
                 /\ \A i \in DOMAIN recs :
                       /\ recs[i].id \in valid
                       /\ Cardinality({j \in valid : j < recs[i].id}) = i - 1
           /\ response_text.kind = "garbage" =>
                 /\ parsed.exc = "ParseError"
                 /\ recs = <<>>

\* C21: the selection of the sample recipes returns at least one record for
\* every request, also when the diet of the request rules out every recipe
\* of the catalog.
C21_SelectNonEmpty ==
    request # NoRequest =>
        /\ Len(Select(request)) >= 1
        /\ selected # <<>> =>
              /\ Len(selected) >= 1
              /\ \A i \in DOMAIN selected : selected[i] \in Range(Catalog)

C21_Witness ==
    /\ selected # <<>>
    /\ \A i \in DOMAIN Catalog : Violates(Catalog[i], request.dietary_preferences)

IsFallback(rec) == rec.id = 0

\* C22: the records the parser emits are never fallback records: a result
\* built from the parser's output holds provider records only.
C22_ParserNeverFallback ==
    parsed # NotParsed =>
        /\ parsed.source = "Provider"
        /\ \A i \in DOMAIN parsed.recs : ~IsFallback(parsed.recs[i])

\* C23: while closed the breaker opens exactly on the failure that is the
\* F-th in a row; a success keeps it closed and resets the count.
C23_OpensAtThreshold ==
    [][breaker.state = "Closed" =>
         /\ breaker'.state = "Open" <=>
               (FailureStep /\ breaker.failure_count + 1 >= failure_threshold)
         /\ SuccessStep => breaker'.state = "Closed" /\ breaker'.failure_count = 0
         /\ breaker'.state = "Closed" => breaker'.failure_count < failure_threshold]_vars

C23_Witness ==
    /\ breaker.state = "Closed"
    /\ breaker.failure_count = failure_threshold - 1
    /\ \E t \in batch : pc[t] = "done" /\ result[t].got = "ok"
    /\ Cardinality({t \in batch : pc[t] = "done" /\ result[t].got \in {"http", "net"}})
          = failure_threshold - 1

C25_CallsWithinPool ==
    /\ \A t \in Tasks : Holding(t) => semaphore[Svc(t)] < pool
    /\ \A s \in Tasks : semaphore[s] \in 0..pool
    /\ Cardinality({t \in Tasks : pc[t] \in {"calling", "sync"}}) <= pool

\* C26: the report of a generate that made a provider call is a success
\* exactly when the answer parsed into at least one record, a failure exactly
\* on a network error, a non-success status, a call timeout or a parse error,
\* and no report otherwise.
C26_ReportMatchesOutcome ==
    [][\A t \in Tasks :
         (Holding(t) /\ pc'[t] = "done") =>
             /\ (result'[t].got = "ok" /\ ~EmptyAnswer(result'[t])) =>
                   breaker' = OnSuccess(breaker)
             /\ result'[t].got \in {"http", "net", "timeout", "garbage"} =>
                   breaker' = OnFailure(breaker)
             /\ EmptyAnswer(result'[t]) => breaker' = breaker]_vars

\* C27: a generate whose wait for a slot has lasted the admission timeout
\* never reports to the breaker: it makes no call whose end is reported.
C27_TimedOutNeverReports ==
    [][\A t \in Tasks :
         (pc[t] = "calling" /\ elapsed[t] < MaxElapsed
            /\ elapsed[t] - age[t] >= AdmissionTicks) => pc'[t] # "done"]_vars

\* C28: the breaker does not stay half-open: the trial that was let through
\* is always eventually reported, whatever becomes of the trial request.
C28_HalfOpenLeaves ==
    (breaker.state = "HalfOpen") ~> (breaker.state # "HalfOpen")

\* C29: once the provider call of a generate has timed out the generate is
\* over: whatever answer comes later, it is answered from the fallback
\* catalog, the timeout is what the breaker is told (no success is reported)
\* and its slot is given back once.
C29_TimeoutIsFinal ==
    [][\A t \in Tasks :
         (pc[t] = "sync" /\ pc'[t] = "done") =>
             /\ result'[t].kind = "returned"
             /\ result'[t].source = "Fallback"
             /\ breaker' = OnFailure(breaker)
             /\ semaphore'[Svc(t)] = semaphore[Svc(t)] + 1]_vars

Retriable(e) == ~e.ok /\ (e.code = "ECONNABORTED" \/ e.status >= 500)

\* C30: retryRequest invokes requestFn at most MAX_RETRIES + 1 times; every
\* invocation but the last ended in a client timeout or a status >= 500; it
\* returns on the first success and throws the last error when that error is
\* of another kind or the retries are used up.
C30_RetryBounded ==
    LET calls == retry.calls
        n == Len(calls)
    IN /\ n <= MAX_RETRIES + 1
       /\ retry.retries = MAX_RETRIES - (n - (IF retry.phase = "requesting" THEN 0 ELSE 1))
            \/ n = 0
       /\ \A i \in 1..(n - 1) : Retriable(calls[i])
       /\ retry.phase = "delay" => Retriable(calls[n]) /\ n <= MAX_RETRIES
       /\ retry.settled = "returned" => calls[n].ok
       /\ retry.settled = "thrown" =>
             /\ ~calls[n].ok
             /\ ~Retriable(calls[n]) \/ n = MAX_RETRIES + 1
       /\ (retry.phase = "idle" /\ n > 0) => retry.settled # "none"

C30_Witness ==
    /\ retry.settled = "thrown"
    /\ Len(retry.calls) = MAX_RETRIES + 1
    /\ retry.calls[1].code = "ECONNABORTED"
    /\ retry.calls[MAX_RETRIES + 1].status = 503

====
